---- MODULE Spec2Model ----
(***************************************************************************)
(* Order placement pipeline of the E-commerce backend: cart, inventory,   *)
(* coupon validation, Place Order, Re-order and the status-change signal  *)
(* handlers.                                                               *)
(*                                                                         *)
(* The database is modelled at READ COMMITTED with row locks: a           *)
(* select_for_update() read and an UPDATE both take the row's lock until  *)
(* the enclosing transaction.atomic block ends; the writes of a           *)
(* transaction are held in the request's record until its commit step.    *)
(* Money is kept in cents; a product of cents and percent is in 1/100     *)
(* cent and is quantized when it is stored in a DecimalField.             *)
(* The cart lines of the pipeline carry a variation (ProductVariant holds *)
(* the price); the CartItem table itself, with lines that have none, is   *)
(* db.cartRows.                                                            *)
(***************************************************************************)
EXTENDS Integers, Sequences, FiniteSets, TLC

Users == {"u1", "u2"}
Variants == {"v1", "v2"}
Codes == {"SAVE10", "MEGA", "ONCE"}
\* The codes the shoppers of the cart and order specifications type in.
ShopCodes == {"SAVE10", "MEGA"}
Procs == {"p1", "p2"}

NoCode == "none"
\* CartItem.variation is NULL.
NoVariant == "no_variant"
NoProc == "free"

\* A nullable numeric column that holds NULL.
NULL == -1

\* ---------------------------------------------------------------- bounds
\* Initial quantity of an Inventory row, and the number of client operations
\* (cart writes, Place Order and Re-order requests, status saves) of a run.
MaxStock == 5
MaxOps == 5

\* The last instant of the clock (timezone.now()).
MaxNow == 1

\* Quantities a client puts in a cart line.
CartQtys == {2, 3}

\* ProductVariant.quantity and ProductVariant.price (cents) of the catalog.
VariantStock == [v \in Variants |-> IF v = "v1" THEN 4 ELSE 2]
VariantPrice == [v \in Variants |-> IF v = "v1" THEN 10005 ELSE 1005]

\* ---------------------------------------------------------------- coupons
\* Coupon rows (the fields validate_and_calculate_coupon reads).
CouponTable ==
  [c \in Codes |->
     CASE c = "SAVE10" ->
          [discount_percent |-> 10, max_discount_amount |-> 5000,
           min_order_amount |-> 10000, usage_limit_per_user |-> 1,
           total_user_limit |-> NULL, start_date |-> 0, end_date |-> 0]
       [] c = "MEGA" ->
          [discount_percent |-> 150, max_discount_amount |-> NULL,
           min_order_amount |-> 0, usage_limit_per_user |-> 0,
           total_user_limit |-> 1, start_date |-> 0, end_date |-> 9]
       [] OTHER ->
          [discount_percent |-> 20, max_discount_amount |-> NULL,
           min_order_amount |-> 5000, usage_limit_per_user |-> 1,
           total_user_limit |-> 1, start_date |-> 0, end_date |-> 0]]

Statuses == {"pending", "confirmed", "shipped", "out_for_delivery",
             "delivered", "cancelled", "returned"}

VARIABLES db, ledger, invLock, couponLock, req, nOps, calc

vars == <<db, ledger, invLock, couponLock, req, nOps, calc>>

\* ---------------------------------------------------------------- helpers
RECURSIVE SumOver(_, _)
SumOver(S, f) ==
  IF S = {} THEN 0
  ELSE LET x == CHOOSE y \in S : TRUE IN f[x] + SumOver(S \ {x}, f)

\* The orders in which a query without ORDER BY may return the rows S.
Orderings(S) ==
  {s \in [1..Cardinality(S) -> S] : \A i, j \in 1..Cardinality(S) : s[i] = s[j] => i = j}

\* A DecimalField(decimal_places=2) value as it is stored: x100 is in 1/100
\* cent, the result in cents, ties to the even cent.
Quantize(x100) ==
  LET q == x100 \div 100
      r == x100 % 100
  IN IF r < 50 THEN q
     ELSE IF r > 50 THEN q + 1
     ELSE IF q % 2 = 0 THEN q ELSE q + 1

Min(a, b) == IF a < b THEN a ELSE b

NoLines == [v \in Variants |-> 0]
LineSet(lines) == {v \in Variants : lines[v] > 0}

\* A plain integer column, without the CHECK.
IntegerFieldNoCheck(q) == TRUE

\* PositiveIntegerField: the column's CHECK (quantity >= 0).
PositiveIntegerCheck(q) == q >= 0

\* ---------------------------------------------------------------- state
NoPending ==
  [order |-> [user |-> "u1", coupon |-> NoCode, subtotal |-> 0, discount_amount |-> 0,
              total_amount |-> 0, status |-> "pending", items |-> NoLines,
              price |-> NoLines, reordered_from |-> 0],
   invDec |-> NoLines, cartDel |-> {}, note |-> ""]

IdleReq ==
  [kind |-> "idle", pc |-> "idle", user |-> "u1", code |-> NoCode, lines |-> NoLines,
   prices |-> NoLines, vqty |-> NoLines, todo |-> <<>>, subtotal |-> 0,
   discount100 |-> 0, coupon |-> NoCode, source |-> 0, result |-> "", order |-> 0,
   stage |-> "", status |-> "", previous |-> "",
   variation |-> NoVariant, quantity |-> 0,
   pend |-> NoPending]

\* What a finished request keeps: its response and the step it ended in.
Done(r, result, order) ==
  [IdleReq EXCEPT !.kind = r.kind, !.pc = "done", !.stage = r.pc, !.result = result,
                  !.order = order]

NoLedger ==
  [atPlacement |-> NoLines, atConfirm |-> NoLines, restoredVariant |-> NoLines,
   restoredInventory |-> NoLines, restores |-> 0]

\* The coupon calculation under check (none in the specifications of the pipeline).
NoCalc == [coupon |-> [discount_percent |-> 0, max_discount_amount |-> NULL,
                       min_order_amount |-> 0],
           subtotal |-> 0, discount100 |-> 0, done |-> FALSE]

InitInventory ==
  {inv \in [Variants -> {[exists |-> TRUE, quantity |-> MaxStock],
                         [exists |-> FALSE, quantity |-> 0]}] : inv["v1"].exists}

InitDb(inv) ==
  [inventory |-> inv,
   variantQty |-> VariantStock,
   price |-> VariantPrice,
   cart |-> [u \in Users |-> NoLines],
   couponActive |-> [c \in Codes |-> TRUE],
   usage |-> [c \in Codes |-> [u \in Users |-> [exists |-> FALSE, times_used |-> 0]]],
   orders |-> <<>>,
   tracking |-> <<>>,
   outbox |-> {},
   cartRows |-> <<>>,
   now |-> 0]

Init ==
  /\ \E inv \in InitInventory : db = InitDb(inv)
  /\ ledger = <<>>
  /\ invLock = [v \in Variants |-> NoProc]
  /\ couponLock = [c \in Codes |-> NoProc]
  /\ req = [p \in Procs |-> IdleReq]
  /\ nOps = 0
  /\ calc = NoCalc

\* The locks of p released at the end of its transaction.
ReleaseInv(p) == [v \in Variants |-> IF invLock[v] = p THEN NoProc ELSE invLock[v]]
ReleaseCoupon(p) == [c \in Codes |-> IF couponLock[c] = p THEN NoProc ELSE couponLock[c]]

\* The users whose requests worker p serves (two requests of one user, or of
\* two users, can run at once).
RequestUsers(p) == IF p = "p1" THEN {"u1"} ELSE Users

Free(p) == req[p].pc \in {"idle", "done"}
InTransaction(p) == req[p].pc \in {"lock", "coupon", "create", "commit"}

\* ---------------------------------------------------------------- coupon engine
\* Coupon.is_within_date(): now within [start_date, end_date].
IsWithinDate(c) ==
  CouponTable[c].start_date <= db.now /\ db.now <= CouponTable[c].end_date

\* CouponUsage.objects.filter(coupon=coupon).values("user").distinct().count()
TotalUsersUsed(c) == Cardinality({u \in Users : db.usage[c][u].exists})

\* The percentage of the subtotal with no cap applied.
CalculateDiscountUncapped(coupon, subtotal) == subtotal * coupon.discount_percent

\* The discount of validate_and_calculate_coupon, in 1/100 cent.
CalculateDiscount(coupon, subtotal) ==
  LET discount == subtotal * coupon.discount_percent
  IN IF coupon.max_discount_amount # NULL /\ coupon.max_discount_amount # 0
     THEN Min(discount, coupon.max_discount_amount * 100)
     ELSE discount

\* CouponCalculator.calculate(price, coupon): price and result in 1/100 cent,
\* discount_value in percent or in cents, max_discount_amount in cents.
CouponCalculatorCalculate(price, coupon) ==
  LET raw == IF coupon.discount_type = "percent"
             THEN (price * coupon.discount_value) \div 100
             ELSE coupon.discount_value * 100
      capped == IF coupon.max_discount_amount # NULL /\ coupon.max_discount_amount # 0
                THEN Min(raw, coupon.max_discount_amount * 100)
                ELSE raw
  IN IF capped > 0 THEN capped ELSE 0

\* The per-user check with > in place of >=.
PerUserLimitExceeded(c, times_used) ==
  /\ CouponTable[c].usage_limit_per_user # 0
  /\ CouponTable[c].usage_limit_per_user > 0
  /\ times_used > CouponTable[c].usage_limit_per_user

\* The per-user check: usage_limit_per_user is truthy, positive and reached.
PerUserLimitReached(c, times_used) ==
  /\ CouponTable[c].usage_limit_per_user # 0
  /\ CouponTable[c].usage_limit_per_user > 0
  /\ times_used >= CouponTable[c].usage_limit_per_user

\* The total-user check: total_user_limit is set and reached.
TotalUserLimitReached(c) ==
  /\ CouponTable[c].total_user_limit # NULL
  /\ TotalUsersUsed(c) >= CouponTable[c].total_user_limit

\* update_or_create(coupon, user, defaults={"times_used": 0}) in place of
\* get_or_create: an existing row is reset.
UpdateOrCreateUsage(row) == [exists |-> TRUE, times_used |-> 0]

\* CouponUsage.objects.get_or_create(coupon=coupon, user=user): the row as it
\* is, or a new row with times_used at its default 0.
GetOrCreateUsage(row) ==
  IF row.exists THEN row ELSE [exists |-> TRUE, times_used |-> 0]

\* The validation with the per-user check ahead of the total-user check.
ValidateCouponUserLimitFirst(code, user, subtotal) ==
  LET fail(e, deact) ==
        [error |-> e, discount100 |-> 0, deactivated |-> deact, created |-> FALSE]
  IN IF code \notin Codes \/ ~db.couponActive[code]
       THEN fail("invalid_coupon", FALSE)
     ELSE IF ~IsWithinDate(code)
       THEN fail("expired", TRUE)
     ELSE IF subtotal < CouponTable[code].min_order_amount
       THEN fail("too_low", FALSE)
     ELSE IF PerUserLimitReached(code, GetOrCreateUsage(db.usage[code][user]).times_used)
       THEN fail("per_user_limit", FALSE)
     ELSE IF TotalUserLimitReached(code)
       THEN fail("limit_reached", TRUE)
     ELSE [error |-> "", discount100 |-> CalculateDiscount(CouponTable[code], subtotal),
           deactivated |-> FALSE, created |-> ~db.usage[code][user].exists]

\* validate_and_calculate_coupon inside its atomic block: the error it raises
\* ("" when none), the discount, and the writes the block made (deactivated:
\* coupon.deactivate(); created: the CouponUsage row of get_or_create).
ValidateCoupon(code, user, subtotal) ==
  LET fail(e, deact) ==
        [error |-> e, discount100 |-> 0, deactivated |-> deact, created |-> FALSE]
  IN IF code \notin Codes \/ ~db.couponActive[code]
       THEN fail("invalid_coupon", FALSE)
     ELSE IF ~IsWithinDate(code)
       THEN fail("expired", TRUE)
     ELSE IF subtotal < CouponTable[code].min_order_amount
       THEN fail("too_low", FALSE)
     ELSE IF TotalUserLimitReached(code)
       THEN fail("limit_reached", TRUE)
     ELSE IF PerUserLimitReached(code, GetOrCreateUsage(db.usage[code][user]).times_used)
       THEN fail("per_user_limit", FALSE)
     ELSE [error |-> "", discount100 |-> CalculateDiscount(CouponTable[code], subtotal),
           deactivated |-> FALSE, created |-> ~db.usage[code][user].exists]

\* The coupon row read without select_for_update(): no wait.
CouponRowNoLock(p, code) == TRUE

\* The coupon row select_for_update().get(code=..., active=True) waits for.
CouponRowFree(p, code) ==
  (code \in Codes /\ db.couponActive[code]) => couponLock[code] \in {NoProc, p}

\* What the atomic block of validate_and_calculate_coupon leaves in the enclosing
\* transaction: an exception leaving the block rolls its savepoint back.
SavepointExit(res) ==
  IF res.error # ""
  THEN [deactivated |-> FALSE, created |-> FALSE]
  ELSE [deactivated |-> res.deactivated, created |-> res.created]

\* ---------------------------------------------------------------- transactions
\* usage.save() without the assignment of F("times_used") + 1.
SaveTimesUsedAsRead(row) == [exists |-> TRUE, times_used |-> row.times_used]

\* usage.times_used = F("times_used") + 1; usage.save(), on the row of
\* select_for_update().get_or_create(coupon=coupon, user=user).
IncrementTimesUsed(row) == [exists |-> TRUE, times_used |-> row.times_used + 1]

\* The committed database once the pending writes of p are applied.
CommitDb(p) ==
  LET r == req[p]
      o == r.pend.order
      c == o.coupon
  IN [db EXCEPT
        !.orders = Append(@, o),
        !.tracking = Append(@, [order |-> Len(db.orders) + 1, status |-> "pending",
                                note |-> r.pend.note]),
        !.inventory = [v \in Variants |->
                         [@[v] EXCEPT !.quantity = @ - r.pend.invDec[v]]],
        !.usage = IF c = NoCode THEN @
                  ELSE [@ EXCEPT ![c][o.user] = IncrementTimesUsed(@)],
        !.cart = [@ EXCEPT ![r.user] =
                    [v \in Variants |-> IF v \in r.pend.cartDel THEN 0 ELSE @[v]]]]

\* Without transaction.atomic: the writes made before the exception stay.
RollbackKeepsWrites(p) == IF req[p].pc = "commit" THEN CommitDb(p) ELSE db

\* The committed database when the transaction of p ends by an exception:
\* transaction.atomic discards its writes.
RollbackDb(p) == db

\* The committed database when a view returns a response before its first write.
ReturnDb(p, saved) ==
  [db EXCEPT !.couponActive =
     [c \in Codes |-> IF c = req[p].code /\ saved.deactivated THEN FALSE ELSE @[c]]]

\* The committed database when CartApplyCouponAPI.post returns: the writes
\* validate_and_calculate_coupon left (the CouponUsage row of get_or_create
\* when it raised nothing).
ApplyCouponDb(u, code, res) ==
  LET saved == SavepointExit(res)
  IN [db EXCEPT
        !.couponActive = [c \in Codes |-> IF c = code /\ saved.deactivated
                                           THEN FALSE ELSE @[c]],
        !.usage = IF res.error = ""
                  THEN [@ EXCEPT ![code][u] = GetOrCreateUsage(@)]
                  ELSE @]

\* timezone.now() moves on.
Tick ==
  /\ db.now < MaxNow
  /\ db' = [db EXCEPT !.now = @ + 1]
  /\ UNCHANGED <<ledger, invLock, couponLock, req, nOps, calc>>

\* ---------------------------------------------------------------- cart
\* CartListCreateAPI.post, one line: update_or_create sets the quantity. A line
\* deleted by an uncommitted Place Order is locked until that commit.
AddToCart(u, v, q) ==
  /\ nOps < MaxOps
  /\ \A p \in Procs : ~(req[p].pc = "commit" /\ req[p].user = u /\ v \in req[p].pend.cartDel)
  /\ db' = [db EXCEPT !.cart[u][v] = q]
  /\ nOps' = nOps + 1
  /\ UNCHANGED <<ledger, invLock, couponLock, req, calc>>

\* CartApplyCouponAPI.post: the coupon validated against the cart's subtotal in
\* one transaction; nothing but the writes of the validation is stored.
CartApplyCoupon(p, u, code) ==
  /\ Free(p)
  /\ u \in RequestUsers(p)
  /\ nOps < MaxOps
  /\ nOps' = nOps + 1
  /\ LET cart == db.cart[u]
         r == [IdleReq EXCEPT !.kind = "preview", !.pc = "coupon", !.user = u]
         subtotal == SumOver(LineSet(cart), [v \in Variants |-> cart[v] * db.price[v]])
         res == ValidateCoupon(code, u, subtotal)
     IN IF LineSet(cart) = {}
        THEN /\ req' = [req EXCEPT ![p] = [Done(r, "empty_cart", 0) EXCEPT !.code = code]]
             /\ UNCHANGED db
        ELSE /\ CouponRowFree(p, code)
             /\ req' = [req EXCEPT ![p] =
                          [Done(r, IF res.error # "" THEN res.error ELSE "previewed", 0)
                             EXCEPT !.code = code, !.user = u]]
             /\ db' = ApplyCouponDb(u, code, res)
  /\ UNCHANGED <<ledger, invLock, couponLock, calc>>

\* ---------------------------------------------------------------- cart table
\* The CartItem table row by row (db.cartRows), for lines with and without a
\* variation of one product, and update_or_create step by step.
CartKeys == {"v1", NoVariant}

\* The rows update_or_create's get(user, product, variation) matches
\* (variation=None is looked up as IS NULL).
CartMatches(u, v) ==
  {i \in 1..Len(db.cartRows) : db.cartRows[i].user = u /\ db.cartRows[i].variation = v}

\* unique_together (user, product, variation): the INSERT is accepted. A NULL
\* variation is distinct from every other NULL in the unique index.
UniqueTogether(u, v) == v = NoVariant \/ CartMatches(u, v) = {}

\* defaults={"quantity": ...} saved on the row found.
CartRowsUpdated(i, q) == [db.cartRows EXCEPT ![i].quantity = q]

\* CartListCreateAPI.post, one item: the lookup of update_or_create. One row
\* found is updated, several raise MultipleObjectsReturned, none leads to
\* the INSERT.
CartPostLookup(p, u, v, q) ==
  /\ Free(p)
  /\ u \in RequestUsers(p)
  /\ nOps < MaxOps
  /\ nOps' = nOps + 1
  /\ LET r == [IdleReq EXCEPT !.kind = "cart", !.pc = "insert", !.user = u,
                              !.variation = v, !.quantity = q]
         found == CartMatches(u, v)
     IN IF found = {}
        THEN req' = [req EXCEPT ![p] = r] /\ UNCHANGED db
        ELSE IF Cardinality(found) = 1
        THEN /\ req' = [req EXCEPT ![p] = Done(r, "updated", 0)]
             /\ db' = [db EXCEPT !.cartRows = CartRowsUpdated(CHOOSE i \in found : TRUE, q)]
        ELSE req' = [req EXCEPT ![p] = Done(r, "multiple_objects", 0)] /\ UNCHANGED db
  /\ UNCHANGED <<ledger, invLock, couponLock, calc>>

\* The INSERT of update_or_create: on an IntegrityError the row is looked up
\* again and updated.
CartPostInsert(p) ==
  /\ req[p].kind = "cart" /\ req[p].pc = "insert"
  /\ LET r == req[p]
     IN IF UniqueTogether(r.user, r.variation)
        THEN /\ db' = [db EXCEPT !.cartRows =
                         Append(@, [user |-> r.user, variation |-> r.variation,
                                    quantity |-> r.quantity])]
             /\ req' = [req EXCEPT ![p] = Done(r, "created", 0)]
        ELSE /\ db' = [db EXCEPT !.cartRows =
                         CartRowsUpdated(CHOOSE i \in CartMatches(r.user, r.variation) : TRUE,
                                         r.quantity)]
             /\ req' = [req EXCEPT ![p] = Done(r, "updated", 0)]
  /\ UNCHANGED <<ledger, invLock, couponLock, nOps, calc>>

\* ---------------------------------------------------------------- Place Order
\* cart_items query and the empty-cart return.
PlaceOrderBegin(p, u, code) ==
  /\ Free(p)
  /\ u \in RequestUsers(p)
  /\ nOps < MaxOps
  /\ nOps' = nOps + 1
  /\ IF LineSet(db.cart[u]) = {}
     THEN req' = [req EXCEPT ![p] =
                    Done([IdleReq EXCEPT !.kind = "place", !.user = u, !.code = code],
                         "empty_cart", 0)]
     ELSE \E order \in Orderings(LineSet(db.cart[u])) :
            req' = [req EXCEPT ![p] =
                      [IdleReq EXCEPT !.kind = "place", !.pc = "lock", !.user = u,
                                      !.code = code, !.lines = db.cart[u],
                                      !.prices = db.price, !.vqty = db.variantQty,
                                      !.todo = order]]
  /\ UNCHANGED <<db, ledger, invLock, couponLock, calc>>

\* The stock figure Place Order checks a line against: the Inventory row when
\* there is one, else the quantity of the line's ProductVariant.
AvailableQuantity(inventory, variation_quantity) ==
  IF inventory.exists THEN inventory.quantity ELSE variation_quantity

\* The inventory row read without select_for_update(): no wait.
InventoryRowNoLock(p, v) == TRUE

\* Inventory.objects.select_for_update()...first(): waits while another
\* transaction holds the row.
InventoryRowFree(p, v) ==
  db.inventory[v].exists => invLock[v] \in {NoProc, p}

\* One iteration of the inventory loop: lock the row, check the stock, add to
\* the subtotal.
PlaceOrderCheckInventory(p) ==
  /\ req[p].kind = "place" /\ req[p].pc = "lock"
  /\ LET r == req[p]
         v == Head(r.todo)
         available == AvailableQuantity(db.inventory[v], r.vqty[v])
     IN /\ InventoryRowFree(p, v)
        /\ IF available = NULL
           THEN /\ req' = [req EXCEPT ![p] = Done(r, "no_inventory", 0)]
                /\ invLock' = ReleaseInv(p)
           ELSE IF available < r.lines[v]
           THEN /\ req' = [req EXCEPT ![p] = Done(r, "insufficient_stock", 0)]
                /\ invLock' = ReleaseInv(p)
           ELSE /\ req' = [req EXCEPT ![p].subtotal = @ + r.prices[v] * r.lines[v],
                                      ![p].todo = Tail(r.todo),
                                      ![p].pc = IF Tail(r.todo) # <<>> THEN "lock"
                                                 ELSE IF r.code = NoCode THEN "create"
                                                 ELSE "coupon"]
                /\ invLock' = IF db.inventory[v].exists
                              THEN [invLock EXCEPT ![v] = p] ELSE invLock
  /\ UNCHANGED <<db, ledger, couponLock, nOps, calc>>

\* The coupon step: validation under the coupon row's lock.
PlaceOrderApplyCoupon(p) ==
  /\ req[p].kind = "place" /\ req[p].pc = "coupon"
  /\ LET r == req[p]
         res == ValidateCoupon(r.code, r.user, r.subtotal)
     IN /\ CouponRowFree(p, r.code)
        /\ IF res.error # ""
           THEN /\ req' = [req EXCEPT ![p] = Done(r, res.error, 0)]
                /\ db' = ReturnDb(p, SavepointExit(res))
                /\ invLock' = ReleaseInv(p)
                /\ couponLock' = ReleaseCoupon(p)
           ELSE /\ req' = [req EXCEPT ![p].pc = "create",
                                      ![p].coupon = r.code,
                                      ![p].discount100 = res.discount100]
                /\ couponLock' = [couponLock EXCEPT ![r.code] = p]
                /\ UNCHANGED <<db, invLock>>
  /\ UNCHANGED <<ledger, nOps, calc>>

\* The update without the filter on the line's variation: every Inventory row
\* of the product is decremented by every line.
InventoryDecrementAllRows(lines) ==
  [v \in Variants |-> IF db.inventory[v].exists
                       THEN SumOver(LineSet(lines), lines) ELSE 0]

\* inventory_qs.update(quantity=F("quantity") - qty) for every line whose
\* Inventory row exists: the decrement per variant.
InventoryDecrement(lines) ==
  [v \in Variants |-> IF lines[v] > 0 /\ db.inventory[v].exists THEN lines[v] ELSE 0]

\* The UPDATEs pass the quantity column's CHECK.
DecrementAllowed(dec) ==
  \A v \in Variants :
    dec[v] > 0 => PositiveIntegerCheck(db.inventory[v].quantity - dec[v])

\* Order, OrderItems, inventory updates, coupon usage, tracking row and cart
\* deletion, written inside the transaction.
PlaceOrderWrite(p) ==
  /\ req[p].kind = "place" /\ req[p].pc = "create"
  /\ LET r == req[p]
         dec == InventoryDecrement(r.lines)
         order == [user |-> r.user, coupon |-> r.coupon, subtotal |-> r.subtotal,
                   discount_amount |-> Quantize(r.discount100),
                   total_amount |-> Quantize(r.subtotal * 100 - r.discount100),
                   status |-> "pending", items |-> r.lines,
                   price |-> [v \in Variants |-> IF r.lines[v] > 0 THEN r.prices[v] ELSE 0],
                   reordered_from |-> 0]
     IN /\ \A v \in LineSet(dec) : invLock[v] \in {NoProc, p}
        /\ IF DecrementAllowed(dec)
           THEN /\ req' = [req EXCEPT ![p].pc = "commit",
                                      ![p].pend = [order |-> order, invDec |-> dec,
                                                   cartDel |-> LineSet(db.cart[r.user]),
                                                   note |-> "Order placed"]]
                /\ invLock' = [v \in Variants |-> IF dec[v] > 0 THEN p ELSE invLock[v]]
                /\ UNCHANGED <<db, couponLock>>
           ELSE /\ req' = [req EXCEPT ![p] = Done(r, "integrity_error", 0)]
                /\ db' = RollbackDb(p)
                /\ invLock' = ReleaseInv(p)
                /\ couponLock' = ReleaseCoupon(p)
  /\ UNCHANGED <<ledger, nOps, calc>>

\* The transaction of a Place Order or Re-order commits and the view returns 201.
Commit(p) ==
  /\ req[p].pc = "commit"
  /\ db' = CommitDb(p)
  /\ ledger' = Append(ledger, [NoLedger EXCEPT !.atPlacement = req[p].pend.invDec])
  /\ req' = [req EXCEPT ![p] = Done(req[p], "created", Len(db.orders) + 1)]
  /\ invLock' = ReleaseInv(p)
  /\ couponLock' = ReleaseCoupon(p)
  /\ UNCHANGED <<nOps, calc>>

\* An exception (a database error, a lost connection) ends the transaction at
\* any step.
Abort(p) ==
  /\ InTransaction(p)
  /\ db' = RollbackDb(p)
  /\ req' = [req EXCEPT ![p] = Done(req[p], "aborted", 0)]
  /\ invLock' = ReleaseInv(p)
  /\ couponLock' = ReleaseCoupon(p)
  /\ UNCHANGED <<ledger, nOps, calc>>

\* ---------------------------------------------------------------- Re-order
\* Inventory.get_inventory(product, variation, store): the row, read without a lock.
GetInventory(v) == db.inventory[v]

\* The first loop of ReOrderAPI.post: the failures it can return for the items.
ReOrderFailures(items) ==
  {IF ~GetInventory(v).exists THEN "no_inventory" ELSE "insufficient_stock" :
     v \in {w \in LineSet(items) :
              ~GetInventory(w).exists \/ GetInventory(w).quantity < items[w]}}

\* Stock check and subtotal at the current catalog prices.
ReOrderBegin(p, u, o) ==
  /\ Free(p)
  /\ u \in RequestUsers(p)
  /\ nOps < MaxOps
  /\ o \in 1..Len(db.orders)
  /\ db.orders[o].user = u
  /\ nOps' = nOps + 1
  /\ LET items == db.orders[o].items
         r == [IdleReq EXCEPT !.kind = "reorder", !.user = u, !.lines = items,
                              !.source = o]
     IN IF ReOrderFailures(items) # {}
        THEN \E e \in ReOrderFailures(items) : req' = [req EXCEPT ![p] = Done(r, e, 0)]
        ELSE req' = [req EXCEPT ![p] =
                       [r EXCEPT !.pc = "create",
                                 !.subtotal = SumOver(LineSet(items),
                                                [v \in Variants |-> items[v] * db.price[v]])]]
  /\ UNCHANGED <<db, ledger, invLock, couponLock, calc>>

\* A re-order that takes the coupon and the discount of the original order.
ReOrderCreateWithCoupon(r) ==
  LET old == db.orders[r.source]
  IN [user |-> r.user, coupon |-> old.coupon, subtotal |-> r.subtotal,
      discount_amount |-> old.discount_amount,
      total_amount |-> r.subtotal - old.discount_amount,
      status |-> "pending", items |-> r.lines,
      price |-> [v \in Variants |-> IF r.lines[v] > 0 THEN db.price[v] ELSE 0],
      reordered_from |-> r.source]

\* Order.objects.create of ReOrderAPI.post and the OrderItems of its second
\* loop: no coupon, discount 0, total = subtotal, items at the prices read now.
ReOrderCreate(r) ==
  [user |-> r.user, coupon |-> NoCode, subtotal |-> r.subtotal,
   discount_amount |-> 0, total_amount |-> r.subtotal,
   status |-> "pending", items |-> r.lines,
   price |-> [v \in Variants |-> IF r.lines[v] > 0 THEN db.price[v] ELSE 0],
   reordered_from |-> r.source]

\* The new order, its items at the current prices and the stock deduction
\* (inventory.save() with F("quantity") - quantity), written inside the transaction.
ReOrderWrite(p) ==
  /\ req[p].kind = "reorder" /\ req[p].pc = "create"
  /\ LET r == req[p]
         dec == InventoryDecrement(r.lines)
         order == ReOrderCreate(r)
     IN /\ \A v \in LineSet(dec) : invLock[v] \in {NoProc, p}
        /\ IF DecrementAllowed(dec)
           THEN /\ req' = [req EXCEPT ![p].pc = "commit",
                                      ![p].pend = [order |-> order, invDec |-> dec,
                                                   cartDel |-> {},
                                                   note |-> "Reordered with current prices (no coupon applied)"]]
                /\ invLock' = [v \in Variants |-> IF dec[v] > 0 THEN p ELSE invLock[v]]
                /\ UNCHANGED db
           ELSE /\ req' = [req EXCEPT ![p] = Done(r, "integrity_error", 0)]
                /\ db' = RollbackDb(p)
                /\ invLock' = ReleaseInv(p)
  /\ UNCHANGED <<ledger, couponLock, nOps, calc>>

\* ---------------------------------------------------------------- status signals
\* instance.tracker.previous("status"): the status the row held before the save.
PreviousStatus(o) == db.orders[o].status

\* The deduct() hook of decrease_stock_on_confirm over the items in the order
\* seq: stops at the first item whose variant is short, keeping what it has
\* already deducted. vq is ProductVariant.quantity, read is the quantities
\* the items query loaded.
RECURSIVE Deduct(_, _, _, _)
Deduct(vq, read, items, seq) ==
  IF seq = <<>> THEN vq
  ELSE LET v == Head(seq)
       IN IF read[v] < items[v] THEN vq
          ELSE Deduct([vq EXCEPT ![v] = @ - items[v]], read, items, Tail(seq))

\* The restore() hook of restore_stock_on_cancel.
Restore(vq, items) == [v \in Variants |-> vq[v] + items[v]]

DecreaseStockOnConfirm(previous_status, status) ==
  previous_status # "confirmed" /\ status = "confirmed"

RestoreStockOnCancel(previous_status, status) ==
  previous_status = "confirmed" /\ status \in {"cancelled", "returned"}

\* deduct() raises: some item's variant holds less than the item's quantity.
DeductRaises(vq, items) == \E v \in LineSet(items) : vq[v] < items[v]

\* order_confirmed_email and order_delivered_email: the mails their send()
\* hooks send for a save of status over previous_status (every user has an
\* email address).
Notifications(previous_status, status) ==
  {k \in {"confirmed", "delivered"} : previous_status # k /\ status = k}

\* The mails sent while the saving transaction is still open, were send()
\* called in the receiver.
SentInReceiver(o, mails) == {[order |-> o, status |-> k] : k \in mails}

\* transaction.on_commit(send): of the mails registered for order o, those
\* sent while the saving transaction is still open.
SentBeforeCommit(o, mails) == {}

\* ProductVariant.quantity once the on_commit hooks of a save have run.
HookedVariantQty(o, previous_status, status, seq) ==
  LET items == db.orders[o].items
  IN IF DecreaseStockOnConfirm(previous_status, status)
       THEN Deduct(db.variantQty, db.variantQty, items, seq)
     ELSE IF RestoreStockOnCancel(previous_status, status)
       THEN Restore(db.variantQty, items)
     ELSE db.variantQty

\* The committed database after a save of status s on order o and its
\* on_commit hooks, run in the order they were registered: deduct() or
\* restore(), then send(); a hook that raises ends the run of the hooks.
SavedStatusDb(o, previous_status, s, seq) ==
  LET raised == DecreaseStockOnConfirm(previous_status, s)
                  /\ DeductRaises(db.variantQty, db.orders[o].items)
      mails == IF raised THEN {} ELSE Notifications(previous_status, s)
  IN [db EXCEPT !.orders[o].status = s,
                !.variantQty = HookedVariantQty(o, previous_status, s, seq),
                !.outbox = @ \cup {[order |-> o, status |-> k] : k \in mails}]

\* What the hooks took from and gave back to ProductVariant.quantity, per order.
SavedStatusLedger(o, previous_status, s, seq) ==
  LET vq == HookedVariantQty(o, previous_status, s, seq)
      delta == [v \in Variants |-> vq[v] - db.variantQty[v]]
  IN [ledger EXCEPT
        ![o].atConfirm = [v \in Variants |->
                            @[v] + (IF delta[v] < 0 THEN -delta[v] ELSE 0)],
        ![o].restoredVariant = [v \in Variants |->
                            @[v] + (IF delta[v] > 0 THEN delta[v] ELSE 0)],
        ![o].restores = @ + (IF RestoreStockOnCancel(previous_status, s) THEN 1 ELSE 0)]

\* An order's status is saved (admin) and the post_save hooks run after commit.
StatusUpdate(o, s) ==
  /\ nOps < MaxOps
  /\ o \in 1..Len(db.orders)
  /\ s # db.orders[o].status
  /\ nOps' = nOps + 1
  /\ \E seq \in Orderings(LineSet(db.orders[o].items)) :
       /\ db' = SavedStatusDb(o, PreviousStatus(o), s, seq)
       /\ ledger' = SavedStatusLedger(o, PreviousStatus(o), s, seq)
  /\ UNCHANGED <<invLock, couponLock, req, calc>>

\* The same save inside a transaction that is still open: the row is written
\* and the receivers have registered their hooks.
StatusSave(p, o, s) ==
  /\ Free(p)
  /\ nOps < MaxOps
  /\ o \in 1..Len(db.orders)
  /\ s # db.orders[o].status
  /\ \A q \in Procs : ~(req[q].pc = "saved" /\ req[q].order = o)
  /\ nOps' = nOps + 1
  /\ req' = [req EXCEPT ![p] =
               [IdleReq EXCEPT !.kind = "status", !.pc = "saved", !.order = o,
                               !.status = s, !.previous = PreviousStatus(o)]]
  /\ db' = [db EXCEPT !.outbox =
              @ \cup SentBeforeCommit(o, Notifications(PreviousStatus(o), s))]
  /\ UNCHANGED <<ledger, invLock, couponLock, calc>>

\* The saving transaction commits and its hooks run.
StatusCommit(p) ==
  /\ req[p].kind = "status" /\ req[p].pc = "saved"
  /\ LET r == req[p]
     IN \E seq \in Orderings(LineSet(db.orders[r.order].items)) :
          /\ db' = SavedStatusDb(r.order, r.previous, r.status, seq)
          /\ ledger' = SavedStatusLedger(r.order, r.previous, r.status, seq)
          /\ req' = [req EXCEPT ![p] = Done(r, "saved", r.order)]
  /\ UNCHANGED <<invLock, couponLock, nOps, calc>>

\* The saving transaction rolls back: the write and the hooks are discarded.
StatusRollback(p) ==
  /\ req[p].kind = "status" /\ req[p].pc = "saved"
  /\ req' = [req EXCEPT ![p] = Done(req[p], "rolled_back", req[p].order)]
  /\ UNCHANGED <<db, ledger, invLock, couponLock, nOps, calc>>

\* ProductVariant.quantity as a plain integer column, without the CHECK.
VariantQuantityNoCheck(q) == TRUE

\* ProductVariant.quantity is a PositiveIntegerField: the CHECK (quantity >= 0)
\* an UPDATE must pass.
VariantQuantityCheck(q) == q >= 0

\* The transaction of a save to confirmed commits and its deduct() hook
\* starts: the items query loads each item's variant with its quantity.
StatusCommitDeduct(p) ==
  /\ req[p].kind = "status" /\ req[p].pc = "saved"
  /\ DecreaseStockOnConfirm(req[p].previous, req[p].status)
  /\ \E seq \in Orderings(LineSet(db.orders[req[p].order].items)) :
       req' = [req EXCEPT ![p].pc = "hook", ![p].vqty = db.variantQty, ![p].todo = seq]
  /\ db' = [db EXCEPT !.orders[req[p].order].status = req[p].status]
  /\ UNCHANGED <<ledger, invLock, couponLock, nOps, calc>>

\* One turn of the loop of deduct(): the check on the quantity the query
\* loaded, then the UPDATE with F("quantity") - item.quantity. An exception
\* ends the hooks of the save; after the last item the send() hook runs.
DeductItem(p) ==
  /\ req[p].kind = "status" /\ req[p].pc = "hook"
  /\ LET r == req[p]
         v == Head(r.todo)
         quantity == db.orders[r.order].items[v]
     IN IF r.vqty[v] < quantity
        THEN /\ req' = [req EXCEPT ![p] = Done(r, "insufficient_stock", r.order)]
             /\ UNCHANGED <<db, ledger>>
        ELSE IF ~VariantQuantityCheck(db.variantQty[v] - quantity)
        THEN /\ req' = [req EXCEPT ![p] = Done(r, "integrity_error", r.order)]
             /\ UNCHANGED <<db, ledger>>
        ELSE /\ ledger' = [ledger EXCEPT ![r.order].atConfirm[v] = @ + quantity]
             /\ IF Tail(r.todo) = <<>>
                THEN /\ req' = [req EXCEPT ![p] = Done(r, "saved", r.order)]
                     /\ db' = [db EXCEPT
                                 !.variantQty[v] = @ - quantity,
                                 !.outbox = @ \cup {[order |-> r.order, status |-> k] :
                                                      k \in Notifications(r.previous, r.status)}]
                ELSE /\ req' = [req EXCEPT ![p].todo = Tail(r.todo)]
                     /\ db' = [db EXCEPT !.variantQty[v] = @ - quantity]
  /\ UNCHANGED <<invLock, couponLock, nOps, calc>>

\* ---------------------------------------------------------------- catalog
\* The price column of every stored order item of variant v rewritten, as if
\* OrderItem.price were read through the variation.
PriceChangeCascade(v, price) ==
  [db EXCEPT !.price[v] = price,
             !.orders = [o \in 1..Len(db.orders) |->
                           [db.orders[o] EXCEPT !.price[v] =
                              IF db.orders[o].items[v] > 0 THEN price ELSE @]]]

\* ProductVariant.price saved by ProductVariantRetrieveUpdateDeleteAPI.
PriceChangeDb(v, price) == [db EXCEPT !.price[v] = price]

\* Prices a seller changes a variant to (cents).
NewPrices == {2000}

PriceChange(v, price) ==
  /\ nOps < MaxOps
  /\ price # db.price[v]
  /\ nOps' = nOps + 1
  /\ db' = PriceChangeDb(v, price)
  /\ UNCHANGED <<ledger, invLock, couponLock, req, calc>>

\* ---------------------------------------------------------------- specifications
MaxOrders == MaxOps

\* Stock: carts, Place Order without a coupon and Re-order on two workers.
Next ==
  \/ \E u \in Users, v \in Variants, q \in CartQtys : AddToCart(u, v, q)
  \/ \E p \in Procs, u \in Users : PlaceOrderBegin(p, u, NoCode)
  \/ \E p \in Procs : PlaceOrderCheckInventory(p)
  \/ \E p \in Procs : PlaceOrderWrite(p)
  \/ \E p \in Procs, u \in Users, o \in 1..MaxOrders : ReOrderBegin(p, u, o)
  \/ \E p \in Procs : ReOrderWrite(p)
  \/ \E p \in Procs : Commit(p)
  \/ \E p \in Procs : Abort(p)

Spec == Init /\ [][Next]_vars

\* Coupons: each shopper's cart holds one variant of their own; Place Order
\* with and without a code, and Re-order.
ShopperVariant(u) == IF u = "u1" THEN "v1" ELSE "v2"

NextCoupon ==
  \/ \E u \in Users, q \in CartQtys : AddToCart(u, ShopperVariant(u), q)
  \/ \E p \in Procs, u \in Users, code \in ShopCodes \cup {NoCode} : PlaceOrderBegin(p, u, code)
  \/ \E p \in Procs : PlaceOrderCheckInventory(p)
  \/ \E p \in Procs : PlaceOrderApplyCoupon(p)
  \/ \E p \in Procs : PlaceOrderWrite(p)
  \/ \E p \in Procs, u \in Users, o \in 1..MaxOrders : ReOrderBegin(p, u, o)
  \/ \E p \in Procs : ReOrderWrite(p)
  \/ \E p \in Procs : Commit(p)
  \/ \E p \in Procs : Abort(p)

SpecCoupon == Init /\ [][NextCoupon]_vars

\* Status changes: one shopper's orders and the saves of their status.
NextStatus ==
  \/ \E v \in Variants, q \in CartQtys : AddToCart("u1", v, q)
  \/ PlaceOrderBegin("p1", "u1", NoCode)
  \/ PlaceOrderCheckInventory("p1")
  \/ PlaceOrderWrite("p1")
  \/ Commit("p1")
  \/ \E o \in 1..MaxOrders, s \in Statuses : StatusUpdate(o, s)

SpecStatus == Init /\ [][NextStatus]_vars

\* Add-to-cart requests, with and without a variation, running at once.
NextCart ==
  \/ \E p \in Procs, u \in Users, v \in CartKeys, q \in CartQtys : CartPostLookup(p, u, v, q)
  \/ \E p \in Procs : CartPostInsert(p)

SpecCart == Init /\ [][NextCart]_vars

\* One shopper orders and re-orders while prices and order statuses change.
NextPrice ==
  \/ \E v \in Variants, q \in CartQtys : AddToCart("u1", v, q)
  \/ PlaceOrderBegin("p1", "u1", NoCode)
  \/ PlaceOrderCheckInventory("p1")
  \/ PlaceOrderWrite("p1")
  \/ ReOrderBegin("p1", "u1", 1)
  \/ ReOrderWrite("p1")
  \/ Commit("p1")
  \/ \E v \in Variants, price \in NewPrices : PriceChange(v, price)
  \/ \E o \in 1..MaxOrders, s \in Statuses : StatusUpdate(o, s)

SpecPrice == Init /\ [][NextPrice]_vars

\* Orders of one shopper whose statuses are saved in transactions that commit
\* or roll back.
NextNotify ==
  \/ \E v \in Variants, q \in CartQtys : AddToCart("u1", v, q)
  \/ PlaceOrderBegin("p1", "u1", NoCode)
  \/ PlaceOrderCheckInventory("p1")
  \/ PlaceOrderWrite("p1")
  \/ Commit("p1")
  \/ \E p \in Procs, o \in 1..MaxOrders, s \in Statuses : StatusSave(p, o, s)
  \/ \E p \in Procs : StatusCommit(p)
  \/ \E p \in Procs : StatusRollback(p)

SpecNotify == Init /\ [][NextNotify]_vars

\* Cart, coupon preview and Place Order with coupon codes while the clock runs.
NextExpiry ==
  \/ \E u \in Users, q \in CartQtys : AddToCart(u, ShopperVariant(u), q)
  \/ \E p \in Procs, u \in Users, code \in ShopCodes : CartApplyCoupon(p, u, code)
  \/ \E p \in Procs, u \in Users, code \in ShopCodes : PlaceOrderBegin(p, u, code)
  \/ \E p \in Procs : PlaceOrderCheckInventory(p)
  \/ \E p \in Procs : PlaceOrderApplyCoupon(p)
  \/ \E p \in Procs : PlaceOrderWrite(p)
  \/ \E p \in Procs : Commit(p)
  \/ Tick

SpecExpiry == Init /\ [][NextExpiry]_vars

\* Cart, coupon preview, Place Order with coupon codes, and orders confirmed
\* and cancelled.
NextPreview ==
  \/ \E u \in Users, q \in CartQtys : AddToCart(u, ShopperVariant(u), q)
  \/ \E p \in Procs, u \in Users, code \in ShopCodes : CartApplyCoupon(p, u, code)
  \/ \E p \in Procs, u \in Users, code \in ShopCodes : PlaceOrderBegin(p, u, code)
  \/ \E p \in Procs : PlaceOrderCheckInventory(p)
  \/ \E p \in Procs : PlaceOrderApplyCoupon(p)
  \/ \E p \in Procs : PlaceOrderWrite(p)
  \/ \E p \in Procs : Commit(p)
  \/ \E o \in 1..MaxOrders, s \in {"confirmed", "cancelled"} : StatusUpdate(o, s)

SpecPreview == Init /\ [][NextPreview]_vars

\* Coupon validation with the coupon ONCE, which has a date window, a minimum
\* order amount, a total-user limit and a per-user limit, while the clock runs.
NextValidate ==
  \/ \E u \in Users, q \in CartQtys : AddToCart(u, ShopperVariant(u), q)
  \/ \E p \in Procs, u \in Users : CartApplyCoupon(p, u, "ONCE")
  \/ \E p \in Procs, u \in Users : PlaceOrderBegin(p, u, "ONCE")
  \/ \E p \in Procs : PlaceOrderCheckInventory(p)
  \/ \E p \in Procs : PlaceOrderApplyCoupon(p)
  \/ \E p \in Procs : PlaceOrderWrite(p)
  \/ \E p \in Procs : Commit(p)
  \/ Tick

SpecValidate == Init /\ [][NextValidate]_vars

\* The discount calculation alone, over coupons and subtotals.
CalcPercents == {-10, 0, 10, 100, 150}
CalcCaps == {NULL, 0, 5000}
CalcMinimums == {0, 10000}
CalcSubtotals == {0, 1005, 10000, 30015, 100000}

InitCalc ==
  /\ db = InitDb(CHOOSE inv \in InitInventory : inv["v2"].exists)
  /\ ledger = <<>>
  /\ invLock = [v \in Variants |-> NoProc]
  /\ couponLock = [c \in Codes |-> NoProc]
  /\ req = [p \in Procs |-> IdleReq]
  /\ nOps = 0
  /\ \E pc \in CalcPercents, cap \in CalcCaps, m \in CalcMinimums, st \in CalcSubtotals :
       calc = [NoCalc EXCEPT !.coupon = [discount_percent |-> pc,
                                         max_discount_amount |-> cap,
                                         min_order_amount |-> m],
                             !.subtotal = st]

\* The discount of a coupon that passes the minimum-order check.
Calculate ==
  /\ ~calc.done
  /\ calc.subtotal >= calc.coupon.min_order_amount
  /\ calc' = [calc EXCEPT !.discount100 = CalculateDiscount(calc.coupon, calc.subtotal),
                          !.done = TRUE]
  /\ UNCHANGED <<db, ledger, invLock, couponLock, req, nOps>>

NextCalc == Calculate

SpecCalc == InitCalc /\ [][NextCalc]_vars

\* Confirmations running at once: one shopper's orders and re-orders, each
\* saved as confirmed by a worker of its own, the deduct() hooks item by item.
NextConfirm ==
  \/ \E v \in Variants, q \in CartQtys : AddToCart("u1", v, q)
  \/ PlaceOrderBegin("p1", "u1", NoCode)
  \/ PlaceOrderCheckInventory("p1")
  \/ PlaceOrderWrite("p1")
  \/ \E o \in 1..MaxOrders : ReOrderBegin("p1", "u1", o)
  \/ ReOrderWrite("p1")
  \/ Commit("p1")
  \/ \E p \in Procs, o \in 1..MaxOrders : StatusSave(p, o, "confirmed")
  \/ \E p \in Procs : StatusCommitDeduct(p)
  \/ \E p \in Procs : DeductItem(p)

SpecConfirm == Init /\ [][NextConfirm]_vars

\* ---------------------------------------------------------------- pricing engine
\* MAX_DISCOUNT_PERCENT = Decimal("0.80"), in percent.
MaxDiscountPercent == 80

\* The coupons PricingEngine.apply meets: the fields it reads. discount_value
\* is a percentage or an amount in cents; applicable_products holds the cart
\* lines' products a coupon of scope "product" covers.
PricingCoupons ==
  [c \in {"AUTO50", "AUTOV1", "FULL", "FLAT", "TEN"} |->
     CASE c = "AUTO50" ->
          [discount_type |-> "percent", discount_value |-> 50, max_discount_amount |-> NULL,
           is_pre_applied |-> TRUE, scope |-> "all", applicable_products |-> {}]
       [] c = "AUTOV1" ->
          [discount_type |-> "flat", discount_value |-> 900, max_discount_amount |-> NULL,
           is_pre_applied |-> TRUE, scope |-> "product", applicable_products |-> {"v1"}]
       [] c = "FULL" ->
          [discount_type |-> "percent", discount_value |-> 100, max_discount_amount |-> NULL,
           is_pre_applied |-> FALSE, scope |-> "all", applicable_products |-> {}]
       [] c = "FLAT" ->
          [discount_type |-> "flat", discount_value |-> 50000, max_discount_amount |-> NULL,
           is_pre_applied |-> FALSE, scope |-> "all", applicable_products |-> {}]
       [] OTHER ->
          [discount_type |-> "percent", discount_value |-> 10, max_discount_amount |-> 5000,
           is_pre_applied |-> FALSE, scope |-> "all", applicable_products |-> {}]]

PreAppliedCodes == {c \in DOMAIN PricingCoupons : PricingCoupons[c].is_pre_applied}

\* CouponPolicy.get_priority(coupon)
GetPriority(coupon) ==
  IF coupon.is_pre_applied THEN 10
  ELSE IF coupon.discount_type = "percent" THEN 60
  ELSE 40

\* sorted(coupons, key=get_priority): a stable sort over the three priorities.
SortedByPriority(codes) ==
  LET at(n) == SelectSeq(codes, LAMBDA c : GetPriority(PricingCoupons[c]) = n)
  IN at(10) \o at(40) \o at(60)

\* A policy that lets the discounts of a line reach its whole base price.
MaxAllowedDiscountFull(price) == price

\* CouponPolicy.max_allowed_discount(price) = price * MAX_DISCOUNT_PERCENT
MaxAllowedDiscount(price) == (price * MaxDiscountPercent) \div 100

\* The body of the inner loop of PricingEngine.apply for one coupon and one
\* line: the line's applied discount after it (1/100 cent).
ApplyCouponToItem(coupon, v, base_price, applied) ==
  IF coupon.scope = "product" /\ v \notin coupon.applicable_products
  THEN applied
  ELSE LET remaining_price == base_price - applied
           allowed == MaxAllowedDiscount(base_price) - applied
           discount == Min(CouponCalculatorCalculate(remaining_price, coupon), allowed)
       IN IF remaining_price <= 0 \/ discount <= 0
          THEN applied
          ELSE applied + discount

\* The outer loop of PricingEngine.apply over the sorted coupons:
\* applied_discounts per line.
RECURSIVE ApplyCoupons(_, _, _)
ApplyCoupons(codes, product_prices, applied_discounts) ==
  IF codes = <<>> THEN applied_discounts
  ELSE ApplyCoupons(Tail(codes), product_prices,
                    [v \in Variants |->
                       IF product_prices[v] = NULL THEN applied_discounts[v]
                       ELSE ApplyCouponToItem(PricingCoupons[Head(codes)], v,
                                              product_prices[v], applied_discounts[v])])

\* PricingEngine.apply(cart_items, user_coupon): pre_applied is the result of
\* the query for the active pre-applied coupons, in the order it returned
\* them. Amounts in 1/100 cent; a variant that is no cart line has no entry
\* (NULL) in product_prices.
PricingEngineApply(lines, pre_applied, user_coupon) ==
  LET product_prices == [v \in Variants |->
                           IF lines[v] > 0 THEN VariantPrice[v] * lines[v] * 100 ELSE NULL]
      coupons == SortedByPriority(IF user_coupon # NoCode
                                  THEN Append(pre_applied, user_coupon)
                                  ELSE pre_applied)
      applied == ApplyCoupons(coupons, product_prices, [v \in Variants |-> 0])
      subtotal == SumOver(LineSet(lines), product_prices)
      total_discount == SumOver(LineSet(lines), applied)
      total == subtotal - total_discount
  IN [applied |-> applied, subtotal |-> subtotal, discount |-> total_discount,
      total |-> IF total > 0 THEN total ELSE 0]

\* Quantities of a cart line in the pricing runs (0: no line).
PricingQtys == {0, 1, 2}

\* PricingEngine.apply alone, over carts, sets of active pre-applied coupons
\* (in every order the query may return them) and the user's coupon.
InitPricing ==
  /\ db = InitDb(CHOOSE inv \in InitInventory : inv["v2"].exists)
  /\ ledger = <<>>
  /\ invLock = [v \in Variants |-> NoProc]
  /\ couponLock = [c \in Codes |-> NoProc]
  /\ req = [p \in Procs |-> IdleReq]
  /\ nOps = 0
  /\ \E lines \in [Variants -> PricingQtys], active \in SUBSET PreAppliedCodes,
        user_coupon \in DOMAIN PricingCoupons \cup {NoCode} :
       \E pre_applied \in Orderings(active) :
         calc = [lines |-> lines, pre_applied |-> pre_applied, user_coupon |-> user_coupon,
                 result |-> [applied |-> [v \in Variants |-> 0], subtotal |-> 0,
                             discount |-> 0, total |-> 0],
                 done |-> FALSE]

PricingApply ==
  /\ ~calc.done
  /\ calc' = [calc EXCEPT
                !.result = PricingEngineApply(calc.lines, calc.pre_applied, calc.user_coupon),
                !.done = TRUE]
  /\ UNCHANGED <<db, ledger, invLock, couponLock, req, nOps>>

NextPricing == PricingApply

SpecPricing == InitPricing /\ [][NextPricing]_vars

\* ================================================================ claims
OrderIds == 1..Len(db.orders)
PlacedOrders == {o \in OrderIds : db.orders[o].reordered_from = 0}

\* Units of variant v taken from its Inventory row by the Place-Order calls
\* that succeeded.
PlacedDecrement(v) ==
  SumOver(PlacedOrders, [o \in PlacedOrders |-> ledger[o].atPlacement[v]])

\* C1: no overselling. The Place-Order calls that succeed never take more from
\* an Inventory row than it held at the start; a call that commits still finds
\* the stock it checked, and no call fails on the quantity constraint instead
\* of the insufficient-stock answer.
C1_NoOverselling ==
  /\ \A v \in Variants : db.inventory[v].exists => PlacedDecrement(v) <= MaxStock
  /\ \A p \in Procs :
       req[p].kind = "place" =>
         /\ req[p].result # "integrity_error"
         /\ req[p].pc = "commit" =>
              \A v \in Variants : req[p].pend.invDec[v] <= db.inventory[v].quantity

\* Two Place-Order calls of 3 units against a row of 5: one created its order,
\* the other was answered insufficient stock, 2 units remain.
C1_Witness ==
  \E p, q \in Procs :
    /\ req[p].kind = "place" /\ req[p].result = "created"
    /\ req[q].kind = "place" /\ req[q].result = "insufficient_stock"
    /\ Len(db.orders) = 1
    /\ db.orders[1].items["v1"] = 3
    /\ db.inventory["v1"].quantity = 2

\* What Place Order persists: orders with their items, tracking rows, inventory
\* quantities, coupon usage counts and cart lines.
Persisted ==
  <<db.orders, db.tracking, db.inventory,
    [c \in Codes |-> [u \in Users |-> db.usage[c][u].times_used]], db.cart>>

\* C2: atomicity of Place Order. A step in which a Place-Order call ends
\* without creating its order leaves every persisted row as it was.
C2_Atomicity ==
  [][\A p \in Procs :
       (req'[p] # req[p] /\ req'[p].pc = "done" /\ req'[p].kind = "place"
          /\ req'[p].result # "created")
       => Persisted' = Persisted]_vars

\* A Place-Order call was cut off by an exception after its writes.
C2_Witness ==
  \E p \in Procs :
    req[p].kind = "place" /\ req[p].result = "aborted" /\ req[p].stage = "commit"

OrdersWith(c, u) ==
  Cardinality({o \in OrderIds : db.orders[o].coupon = c /\ db.orders[o].user = u})

ValidationErrors ==
  {"invalid_coupon", "expired", "too_low", "limit_reached", "per_user_limit"}

\* C3 as stated: at most usage_limit_per_user orders of a user with a coupon,
\* for every coupon.
C3_AsStated ==
  \A c \in Codes, u \in Users : OrdersWith(c, u) <= CouponTable[c].usage_limit_per_user

\* C3 (amended): for a coupon whose usage_limit_per_user k is at least 1, a
\* user has at most k orders with it, a validated call in flight still has a
\* use left, and the coupon step of a call made when times_used has reached k
\* ends the call without an order, with a validation error or an exception.
C3_PerUserLimit ==
  /\ [](\A c \in Codes, u \in Users :
          CouponTable[c].usage_limit_per_user >= 1 =>
            /\ OrdersWith(c, u) <= CouponTable[c].usage_limit_per_user
            /\ db.usage[c][u].times_used = OrdersWith(c, u)
            /\ \A p \in Procs :
                 (req[p].coupon = c /\ req[p].user = u /\ req[p].pc \in {"create", "commit"})
                 => db.usage[c][u].times_used < CouponTable[c].usage_limit_per_user)
  /\ [][\A p \in Procs :
          (/\ req[p].pc = "coupon"
           /\ req'[p] # req[p]
           /\ req[p].code \in Codes
           /\ CouponTable[req[p].code].usage_limit_per_user >= 1
           /\ db.usage[req[p].code][req[p].user].times_used
                >= CouponTable[req[p].code].usage_limit_per_user)
          => /\ req'[p].pc = "done"
             /\ req'[p].result \in ValidationErrors \cup {"aborted"}
             /\ db'.orders = db.orders]_vars

\* A user's second call with a coupon limited to one use was refused.
C3_Witness ==
  \E u \in Users, p \in Procs :
    /\ db.usage["SAVE10"][u].times_used = 1
    /\ OrdersWith("SAVE10", u) = 1
    /\ req[p].kind = "place" /\ req[p].result = "per_user_limit"

\* C4: the quantity of every Inventory row is at least zero.
C4_NonNegativeInventory ==
  \A v \in Variants : db.inventory[v].quantity >= 0

\* A Re-order that raced another deduction was stopped by the quantity check.
C4_Witness ==
  \E p \in Procs : req[p].kind = "reorder" /\ req[p].result = "integrity_error"

\* C5: every order has total_amount = subtotal - discount_amount and a
\* total_amount of at least zero.
C5_OrderTotals ==
  \A o \in OrderIds :
    /\ db.orders[o].total_amount = db.orders[o].subtotal - db.orders[o].discount_amount
    /\ db.orders[o].total_amount >= 0

\* C6: the discount of a coupon that passes validation is between zero and the
\* subtotal, and at most max_discount_amount when that is set.
C6_DiscountBounds ==
  calc.done =>
    /\ 0 <= calc.discount100
    /\ calc.discount100 <= calc.subtotal * 100
    /\ calc.coupon.max_discount_amount # NULL =>
         calc.discount100 <= calc.coupon.max_discount_amount * 100

\* C7: Place Order creates no order for a cart with a line that has no
\* Inventory row.
C7_MissingInventoryIsError ==
  \A o \in PlacedOrders :
    \A v \in LineSet(db.orders[o].items) : db.inventory[v].exists

\* C8: the stock of an order's item is deducted at placement or at
\* confirmation, never at both.
C8_SingleDeductionPoint ==
  \A o \in OrderIds, v \in Variants :
    ~(ledger[o].atPlacement[v] > 0 /\ ledger[o].atConfirm[v] > 0)

\* C9: once a confirmed order was cancelled or returned, what was taken from
\* each Inventory row for it has been added back to that row.
C9_RestoreToInventory ==
  \A o \in OrderIds :
    ledger[o].restores > 0 =>
      \A v \in Variants : ledger[o].restoredInventory[v] = ledger[o].atPlacement[v]

CouponUsers(c) == {u \in Users : OrdersWith(c, u) > 0}

\* The users with a validated Place-Order call in flight for coupon c.
CouponUsersInFlight(c) ==
  {u \in Users : \E p \in Procs :
     req[p].coupon = c /\ req[p].user = u /\ req[p].pc \in {"create", "commit"}}

\* C10: for a coupon with a total_user_limit L, the users with an order and
\* the users whose call has passed the limit check are together at most L.
C10_TotalUserLimit ==
  \A c \in Codes :
    CouponTable[c].total_user_limit # NULL =>
      Cardinality(CouponUsers(c) \cup CouponUsersInFlight(c)) <= CouponTable[c].total_user_limit

\* One user holds the only slot of the coupon and another user's call was
\* refused by the limit check.
C10_Witness ==
  \E p \in Procs :
    /\ Cardinality(CouponUsers("MEGA")) = 1
    /\ req[p].kind = "place" /\ req[p].result = "limit_reached"

\* C11: lazy deactivation is persistent. When a validation ends with the
\* expired error, the coupon's active flag is false in the committed state.
C11_LazyDeactivation ==
  [][\A p \in Procs :
       (req'[p] # req[p] /\ req'[p].pc = "done" /\ req'[p].result = "expired")
       => LET code == IF req'[p].kind = "preview" THEN req'[p].code ELSE req[p].code
          IN ~db'.couponActive[code]]_vars

\* C12: price snapshot immutability. No step changes the price stored on the
\* items of an order that exists, and no order disappears.
C12_PriceSnapshot ==
  [][/\ Len(db'.orders) >= Len(db.orders)
     /\ \A o \in OrderIds : /\ db'.orders[o].price = db.orders[o].price
                            /\ db'.orders[o].items = db.orders[o].items]_vars

\* An order keeps its old price after the variant's price changed, its status
\* was updated and it was re-ordered at the new price.
C12_Witness ==
  \E o, n \in OrderIds, v \in Variants :
    /\ db.orders[n].reordered_from = o
    /\ db.orders[o].items[v] > 0
    /\ db.orders[o].price[v] = VariantPrice[v]
    /\ db.price[v] # VariantPrice[v]
    /\ db.orders[n].price[v] = db.price[v]
    /\ db.orders[o].status # "pending"

\* The edges of the order life cycle: the main line, and cancelled or
\* returned from confirmed or a later status.
StatusEdges ==
  {<<"pending", "confirmed">>, <<"confirmed", "shipped">>,
   <<"shipped", "out_for_delivery">>, <<"out_for_delivery", "delivered">>}
  \cup ({"confirmed", "shipped", "out_for_delivery", "delivered"}
          \X {"cancelled", "returned"})

\* C13: an order's status changes only along an edge of the life cycle.
C13_StatusEdges ==
  [][\A o \in OrderIds :
       db'.orders[o].status # db.orders[o].status
       => <<db.orders[o].status, db'.orders[o].status>> \in StatusEdges]_vars

\* C14: no two Place-Order calls each hold the lock of an inventory row the
\* other is waiting for.
C14_NoDeadlock ==
  \A p, q \in Procs :
    ~(/\ p # q
      /\ req[p].kind = "place" /\ req[p].pc = "lock"
      /\ req[q].kind = "place" /\ req[q].pc = "lock"
      /\ db.inventory[Head(req[p].todo)].exists
      /\ db.inventory[Head(req[q].todo)].exists
      /\ invLock[Head(req[p].todo)] = q
      /\ invLock[Head(req[q].todo)] = p)

\* C15: a confirmed or delivered mail is sent only in the step that commits
\* the transaction which saved that status on that order; a step that rolls a
\* save back sends nothing.
C15_NotifyAfterCommit ==
  [][\A n \in db'.outbox \ db.outbox :
       \E p \in Procs :
         /\ req[p].kind = "status" /\ req[p].pc = "saved"
         /\ req'[p].pc = "done" /\ req'[p].result = "saved"
         /\ req[p].order = n.order /\ req[p].status = n.status
         /\ db'.orders[n.order].status = n.status]_vars

\* A delivered mail was sent for a committed save, and another save was
\* rolled back without a mail for its status.
C15_Witness ==
  \E p \in Procs, o \in OrderIds :
    /\ [order |-> o, status |-> "delivered"] \in db.outbox
    /\ [order |-> o, status |-> "confirmed"] \notin db.outbox
    /\ req[p].kind = "status" /\ req[p].result = "rolled_back" /\ req[p].order = o

\* C16: for every coupon and user, no step lowers times_used or removes the
\* usage row.
C16_TimesUsedMonotone ==
  [][\A c \in Codes, u \in Users :
       /\ db'.usage[c][u].times_used >= db.usage[c][u].times_used
       /\ db.usage[c][u].exists => db'.usage[c][u].exists]_vars

\* An order that used a coupon was confirmed and then cancelled, and the
\* user's times_used is still 1.
C16_Witness ==
  \E o \in OrderIds :
    /\ db.orders[o].coupon # NoCode
    /\ db.orders[o].status = "cancelled"
    /\ ledger[o].restores > 0
    /\ db.usage[db.orders[o].coupon][db.orders[o].user].times_used = 1

\* C17: the cart table holds at most one row per (user, product, variation).
C17_OneLinePerKey ==
  \A i, j \in 1..Len(db.cartRows) :
    (db.cartRows[i].user = db.cartRows[j].user
       /\ db.cartRows[i].variation = db.cartRows[j].variation) => i = j

\* C18: the step that commits a Place Order lowers the Inventory row of each
\* ordered line by exactly the ordered quantity and leaves every other
\* Inventory row as it was.
C18_DecrementFrame ==
  [][\A p \in Procs :
       (req[p].kind = "place" /\ req[p].pc = "commit"
          /\ req'[p].pc = "done" /\ req'[p].result = "created")
       => LET items == db'.orders[req'[p].order].items
          IN \A v \in Variants :
               /\ db'.inventory[v].exists = db.inventory[v].exists
               /\ db.inventory[v].exists =>
                    db'.inventory[v].quantity = db.inventory[v].quantity - items[v]]_vars

\* An order for v1 alone was placed: v1's row went down by the ordered
\* quantity and v2's row still holds its initial quantity.
C18_Witness ==
  \E p \in Procs :
    /\ req[p].kind = "place" /\ req[p].result = "created"
    /\ Len(db.orders) = 1
    /\ db.orders[1].items["v1"] > 0 /\ db.orders[1].items["v2"] = 0
    /\ db.inventory["v2"].exists /\ db.inventory["v2"].quantity = MaxStock
    /\ db.inventory["v1"].quantity = MaxStock - db.orders[1].items["v1"]

ValidatedCode(p) ==
  IF req'[p].kind = "preview" THEN req'[p].code ELSE req[p].code

\* C20: a validation of a coupon with total_user_limit L ends with the
\* exhausted error exactly when at least L users have an order with it.
C20_CountsCompletedOrders ==
  [][\A p \in Procs :
       /\ (req'[p] # req[p] /\ req'[p].pc = "done" /\ req'[p].result = "limit_reached")
          => Cardinality(CouponUsers(ValidatedCode(p)))
               >= CouponTable[ValidatedCode(p)].total_user_limit
       /\ (req'[p] # req[p]
             /\ \/ req'[p].pc = "done" /\ req'[p].result = "previewed"
                \/ req[p].pc = "coupon" /\ req'[p].pc = "create"
             /\ CouponTable[ValidatedCode(p)].total_user_limit # NULL)
          => Cardinality(CouponUsers(ValidatedCode(p)))
               < CouponTable[ValidatedCode(p)].total_user_limit]_vars

\* C21: Re-order never applies or consumes a coupon. Every order made by a
\* re-order has no coupon, discount_amount 0 and total_amount = subtotal and is
\* linked through reordered_from to an earlier order of the same user, and the
\* step that commits a re-order leaves every CouponUsage row as it was.
C21_ReOrderNoCoupon ==
  /\ [](\A n \in OrderIds :
          db.orders[n].reordered_from # 0 =>
            /\ db.orders[n].coupon = NoCode
            /\ db.orders[n].discount_amount = 0
            /\ db.orders[n].total_amount = db.orders[n].subtotal
            /\ db.orders[n].reordered_from \in 1..(n - 1)
            /\ db.orders[db.orders[n].reordered_from].user = db.orders[n].user)
  /\ [][\A p \in Procs :
          (req[p].kind = "reorder" /\ req'[p] # req[p]) => db'.usage = db.usage]_vars

\* A re-order of an order that was placed with a coupon.
C21_Witness ==
  \E o, n \in OrderIds :
    /\ db.orders[n].reordered_from = o
    /\ db.orders[o].coupon # NoCode
    /\ db.orders[o].discount_amount > 0

\* The percentage of the subtotal before the cap, in 1/100 cent.
RawDiscount100 == calc.subtotal * calc.coupon.discount_percent

FirstFailedCheck(code, u, subtotal) ==
  LET coupon == CouponTable[code]
      users == {w \in Users : db.usage[code][w].exists}
      times_used == IF db.usage[code][u].exists THEN db.usage[code][u].times_used ELSE 0
  IN IF ~db.couponActive[code] THEN "invalid_coupon"
     ELSE IF db.now < coupon.start_date \/ db.now > coupon.end_date THEN "expired"
     ELSE IF subtotal < coupon.min_order_amount THEN "too_low"
     ELSE IF coupon.total_user_limit # NULL /\ Cardinality(users) >= coupon.total_user_limit
       THEN "limit_reached"
     ELSE IF coupon.usage_limit_per_user > 0 /\ times_used >= coupon.usage_limit_per_user
       THEN "per_user_limit"
     ELSE ""

\* C23: coupon validation reports the error of the first failing check in the
\* order lookup, date window, minimum order amount, total-user limit, per-user
\* limit, in the coupon preview and in Place Order; it passes only when no
\* check fails.
C23_CheckOrder ==
  [][\A p \in Procs :
       /\ (/\ req'[p] # req[p] /\ req'[p].kind = "preview" /\ req'[p].pc = "done"
           /\ req'[p].result # "empty_cart")
          => LET u == req'[p].user
                 subtotal == SumOver(LineSet(db.cart[u]),
                                     [v \in Variants |-> db.cart[u][v] * db.price[v]])
                 verdict == FirstFailedCheck(req'[p].code, u, subtotal)
             IN req'[p].result = IF verdict = "" THEN "previewed" ELSE verdict
       /\ (/\ req'[p] # req[p] /\ req[p].kind = "place" /\ req[p].pc = "coupon")
          => LET verdict == FirstFailedCheck(req[p].code, req[p].user, req[p].subtotal)
             IN IF verdict = "" THEN req'[p].pc = "create"
                ELSE req'[p].pc = "done" /\ req'[p].result = verdict]_vars

\* A coupon that is both exhausted (total-user limit reached) and over the
\* user's own limit is reported as exhausted.
C23_Witness ==
  \E p \in Procs :
    /\ req[p].pc = "done" /\ req[p].code = "ONCE" /\ req[p].result = "limit_reached"
    /\ db.usage["ONCE"][req[p].user].exists
    /\ db.usage["ONCE"][req[p].user].times_used >= CouponTable["ONCE"].usage_limit_per_user
    /\ Cardinality({w \in Users : db.usage["ONCE"][w].exists})
         >= CouponTable["ONCE"].total_user_limit

\* The base price of cart line v in a pricing run (1/100 cent).
BasePrice100(v) == VariantPrice[v] * calc.lines[v] * 100

\* The coupons of a pricing run that cover line v.
CouponsOn(v) ==
  {i \in 1..Len(calc.pre_applied) :
     LET c == PricingCoupons[calc.pre_applied[i]]
     IN c.scope = "product" => v \in c.applicable_products}

\* C24: PricingEngine.apply gives each cart line a cumulative discount, over
\* all pre-applied coupons and the user's coupon, between 0 and 80% of the
\* line's base price; the returned discount is the sum over the lines and at
\* most 80% of the subtotal, and the returned total is subtotal - discount and
\* never negative.
C24_GlobalCap ==
  calc.done =>
    /\ \A v \in Variants :
         /\ 0 <= calc.result.applied[v]
         /\ calc.result.applied[v] * 100 <= BasePrice100(v) * MaxDiscountPercent
    /\ calc.result.subtotal = SumOver(Variants, [v \in Variants |-> BasePrice100(v)])
    /\ calc.result.discount = SumOver(Variants, calc.result.applied)
    /\ calc.result.discount * 100 <= calc.result.subtotal * MaxDiscountPercent
    /\ calc.result.total = calc.result.subtotal - calc.result.discount
    /\ calc.result.total >= 0

\* Two pre-applied coupons and a 100 percent coupon of the user on one line:
\* the line's discounts stop at exactly 80% of its base price.
C24_Witness ==
  /\ calc.done
  /\ calc.user_coupon = "FULL"
  /\ \E v \in Variants :
       /\ calc.lines[v] > 0
       /\ Cardinality(CouponsOn(v)) = 2
       /\ calc.result.applied[v] * 100 = BasePrice100(v) * MaxDiscountPercent
  /\ calc.result.discount * 100 = calc.result.subtotal * MaxDiscountPercent

\* Units of variant v the confirmations of order o took from
\* ProductVariant.quantity and the cancellations/returns have not given back.
NetDeducted(o, v) == ledger[o].atConfirm[v] - ledger[o].restoredVariant[v]

\* C25: over any sequence of status updates on an order, for each of its items
\* the stock deducted by confirmations minus the stock restored by
\* cancellations and returns never exceeds the item's quantity.
C25_DeductedOnce ==
  \A o \in OrderIds, v \in Variants : NetDeducted(o, v) <= db.orders[o].items[v]

\* C26: a save that moves an order to cancelled or returned while stock
\* deducted at its confirmation is outstanding restores that stock, whatever
\* status the order held before the save.
C26_RestoredOnCancel ==
  [][\A o \in OrderIds :
       (/\ db'.orders[o].status # db.orders[o].status
        /\ db'.orders[o].status \in {"cancelled", "returned"})
       => \A v \in Variants :
            NetDeducted(o, v) > 0 =>
              /\ ledger'[o].restoredVariant[v] = ledger[o].restoredVariant[v] + NetDeducted(o, v)
              /\ db'.variantQty[v] = db.variantQty[v] + NetDeducted(o, v)]_vars

\* C27: once the hooks of a save to confirmed have run, the stock of either
\* all or none of the order's items is deducted.
C27_AllOrNothing ==
  \A o \in OrderIds :
    db.orders[o].status = "confirmed" =>
      {v \in LineSet(db.orders[o].items) : NetDeducted(o, v) > 0}
        \in {{}, LineSet(db.orders[o].items)}

\* Units of variant v the confirmations of all orders took from
\* ProductVariant.quantity, and the units handed back.
ConfirmedDeduction(v) == SumOver(OrderIds, [o \in OrderIds |-> ledger[o].atConfirm[v]])
RestoredToVariant(v) == SumOver(OrderIds, [o \in OrderIds |-> ledger[o].restoredVariant[v]])

\* C28: for any interleaving of confirmations of different orders that contain
\* the same variant, the variant's quantity never goes below zero, and the
\* confirmations together deduct no more than the variant held before them.
C28_VariantNonNegative ==
  \A v \in Variants :
    /\ db.variantQty[v] >= 0
    /\ ConfirmedDeduction(v) <= VariantStock[v] + RestoredToVariant(v)
    /\ db.variantQty[v] = VariantStock[v] - ConfirmedDeduction(v) + RestoredToVariant(v)

\* Two confirmations of orders with the same variant both read a quantity
\* that covers their item; the first UPDATE took the variant to zero and the
\* second was refused.
C28_Witness ==
  \E p, q \in Procs, v \in Variants :
    /\ p # q /\ req[p].order # req[q].order
    /\ req[p].kind = "status" /\ req[p].pc = "done" /\ req[p].result = "saved"
    /\ req[q].kind = "status" /\ req[q].pc = "done" /\ req[q].result = "integrity_error"
    /\ db.orders[req[p].order].items[v] > 0
    /\ db.orders[req[q].order].items[v] > db.variantQty[v]
    /\ ledger[req[q].order].atConfirm[v] = 0

\* C29: every cart line a successful Place Order removes is an item of the
\* order it created, with the same variant and quantity, also when the user
\* writes cart lines while the call runs.
C29_DeletedLinesOrdered ==
  [][\A p \in Procs :
       (/\ req[p].kind = "place" /\ req[p].pc = "commit"
        /\ req'[p].pc = "done" /\ req'[p].result = "created")
       => LET u == req[p].user
              order == db'.orders[req'[p].order]
          IN \A v \in Variants :
               (db.cart[u][v] > 0 /\ db'.cart[u][v] = 0)
               => order.items[v] = db.cart[u][v]]_vars

\* C30: every order created by Place Order or Re-order has subtotal equal to
\* the sum over its items of price times quantity, also when a catalog price
\* is changed while the call runs.
C30_SubtotalIsItemSum ==
  \A o \in OrderIds :
    db.orders[o].subtotal =
      SumOver(LineSet(db.orders[o].items),
              [v \in Variants |-> db.orders[o].price[v] * db.orders[o].items[v]])

====
